---- MODULE Spec2Model ----
(***************************************************************************)
(* Model of src/src/charge_indicator.c (ZMK charge indicator).             *)
(*                                                                         *)
(* Four execution contexts of the module are modelled, each with its own   *)
(* program counter:                                                        *)
(*   "init"     charge_indicator_init      (SYS_INIT, lines 214-280)       *)
(*   "irq"      chg_handler                (GPIO callback, lines 165-171)  *)
(*   "maint"    charging_maint_task        (thread, lines 195-205)         *)
(*   "listener" battery_state_changed_listener (lines 174-186)             *)
(* The environment is the charge-status line, the battery subsystem, the   *)
(* event manager and the status-display widget that shares the three LEDs. *)
(* Every gpio_pin_set is a step of its own, so the contexts interleave     *)
(* between the per-channel writes exactly as threads and the callback do.  *)
(***************************************************************************)
EXTENDS Integers, Sequences, FiniteSets, TLC

VARIABLES
    cfg,             \* Kconfig values (immutable)
    dt,              \* devicetree / device readiness (immutable)
    raw,             \* raw level of the charge-status line
    soc,             \* value returned by zmk_battery_state_of_charge()
    ev,              \* payload of the event the listener handles, << >> if none
    is_charging,     \* static atomic_t is_charging
    leds,            \* logical level last written to each LED pin
    pc,              \* position of each context
    arg,             \* per context: the bool passed to apply_charging_color
    chans,           \* per context: the channel values it is writing
    c1,              \* charge_indicator_init: first initial sample
    c2,              \* charge_indicator_init: second initial sample
    irq_pending,     \* latched edge interrupts not yet serviced
    int_enabled,     \* gpio_pin_interrupt_configure succeeded
    cb_added,        \* gpio_add_callback succeeded
    pins_configured, \* pins on which gpio_pin_configure succeeded
    init_ret,        \* return value of charge_indicator_init
    init_log,        \* steps charge_indicator_init has executed, in order
    listener_ret     \* return value of the listener (0 while it runs)

vars == << cfg, dt, raw, soc, ev, is_charging, leds, pc, arg, chans, c1, c2,
           irq_pending, int_enabled, cb_added, pins_configured, init_ret,
           init_log, listener_ret >>

----------------------------------------------------------------------------
(* Bounds and input sets *)

MaxPending == 1

ENODEV == 19
ENOTSUP == 134

Leds == {"red", "green", "blue"}
Ctx == {"init", "irq", "maint", "listener"}

\* values of zmk_battery_state_of_charge() (uint8_t): critical and missing
Pcts == {5, 255}

\* state of charge carried by a zmk_battery_state_changed event
EvPcts == {20, 255}

\* return values of the GPIO driver calls
GpioRets == {0, -5}

\* Kconfig: thresholds 10/30/80, colours critical=1 low=3 medium=2 high=7
Configs ==
    [ enabled : BOOLEAN,
      chg_policy : BOOLEAN,
      battery_level_based_color : BOOLEAN,
      chg_color : {5},
      level_critical : {10}, level_low : {30}, level_high : {80},
      color_critical : {1}, color_low : {3}, color_medium : {2},
      color_high : {7}, color_missing : {4} ]

\* per LED alias: "none" = alias not okay, "notready" = alias okay but its
\* GPIO controller is not ready, "okay" = alias okay and controller ready
LedStatus == {"none", "notready", "okay"}
AllDeviceTrees == [ chg_ready : BOOLEAN, led : [Leds -> LedStatus] ]

\* the wirings the concurrency analysis runs on: all LEDs usable, no LED
\* alias, one alias missing, one controller not ready, input not ready
DeviceTrees ==
    { d \in AllDeviceTrees :
        \/ d.chg_ready /\ \A l \in Leds : d.led[l] = "okay"
        \/ d.chg_ready /\ \A l \in Leds : d.led[l] = "none"
        \/ d.chg_ready /\ d.led = [l \in Leds |-> IF l = "blue" THEN "none" ELSE "okay"]
        \/ d.chg_ready /\ d.led = [l \in Leds |-> IF l = "green" THEN "notready" ELSE "okay"]
        \/ ~d.chg_ready /\ \A l \in Leds : d.led[l] = "okay" }

Off == [red |-> FALSE, green |-> FALSE, blue |-> FALSE]

----------------------------------------------------------------------------
(* Pure functions *)

\* lines 47-65: LED control is compiled in only if all three aliases are okay
LedEnabled(d) == \A l \in Leds : d.led[l] # "none"

\* line 233: device_is_ready on the three LED controllers
LedsReady(d) == \A l \in Leds : d.led[l] = "okay"

\* an active-high CHG line
read_charging_ActiveHigh(level) == level = 1

\* lines 130-133
read_charging(level) == level = 0

\* a colour code taken modulo 8 instead of falling back to red
apply_color_code_Masked(color) ==
    [red   |-> color % 2 = 1,
     green |-> (color \div 2) % 2 = 1,
     blue  |-> (color \div 4) % 2 = 1]

\* lines 86-100: the channel values apply_color_code writes for a colour code
apply_color_code(color) ==
    CASE color = 0 -> [red |-> FALSE, green |-> FALSE, blue |-> FALSE]
      [] color = 1 -> [red |-> TRUE,  green |-> FALSE, blue |-> FALSE]
      [] color = 2 -> [red |-> FALSE, green |-> TRUE,  blue |-> FALSE]
      [] color = 3 -> [red |-> TRUE,  green |-> TRUE,  blue |-> FALSE]
      [] color = 4 -> [red |-> FALSE, green |-> FALSE, blue |-> TRUE]
      [] color = 5 -> [red |-> TRUE,  green |-> FALSE, blue |-> TRUE]
      [] color = 6 -> [red |-> FALSE, green |-> TRUE,  blue |-> TRUE]
      [] color = 7 -> [red |-> TRUE,  green |-> TRUE,  blue |-> TRUE]
      [] OTHER     -> [red |-> TRUE,  green |-> FALSE, blue |-> FALSE]

\* thresholds taken as inclusive upper bounds
get_battery_level_color_Inclusive(pct, c) ==
    LET battery_pct == pct % 256 IN
    IF battery_pct < 0 \/ battery_pct > 100 THEN c.color_missing
    ELSE IF battery_pct <= c.level_critical THEN c.color_critical
    ELSE IF battery_pct <= c.level_low THEN c.color_low
    ELSE IF battery_pct <= c.level_high THEN c.color_medium
    ELSE c.color_high

\* lines 104-122; battery_pct is a uint8_t
get_battery_level_color(pct, c) ==
    LET battery_pct == pct % 256 IN
    IF battery_pct < 0 \/ battery_pct > 100 THEN c.color_missing
    ELSE IF battery_pct < c.level_critical THEN c.color_critical
    ELSE IF battery_pct < c.level_low THEN c.color_low
    ELSE IF battery_pct < c.level_high THEN c.color_medium
    ELSE c.color_high

\* battery-level colouring tested before the policy
apply_charging_color_ColorFirst(charging, pct, c) ==
    IF charging
    THEN IF c.battery_level_based_color
         THEN apply_color_code(get_battery_level_color(pct, c))
         ELSE IF c.chg_policy THEN Off
              ELSE apply_color_code(c.chg_color)
    ELSE Off

\* lines 139-157: the channel values apply_charging_color writes
apply_charging_color(charging, pct, c) ==
    IF charging
    THEN IF c.chg_policy THEN Off
         ELSE IF c.battery_level_based_color
              THEN apply_color_code(get_battery_level_color(pct, c))
              ELSE apply_color_code(c.chg_color)
    ELSE Off

----------------------------------------------------------------------------
(* Initial state: nothing of the module has run *)

Init ==
    /\ cfg \in Configs
    /\ dt \in DeviceTrees
    /\ raw \in {0, 1}
    /\ soc \in Pcts
    /\ ev = << >>
    /\ is_charging = FALSE
    /\ leds = Off
    /\ pc = [c \in Ctx |->
               CASE c = "init" -> "start"
                 [] c = "maint" -> "none"
                 [] OTHER -> "idle"]
    /\ arg = [c \in Ctx |-> FALSE]
    /\ chans = [c \in Ctx |-> Off]
    /\ c1 = FALSE
    /\ c2 = FALSE
    /\ irq_pending = 0
    /\ int_enabled = FALSE
    /\ cb_added = FALSE
    /\ pins_configured = {}
    /\ init_ret = 0
    /\ init_log = << >>
    /\ listener_ret = 0

----------------------------------------------------------------------------
(* apply_charging_color as executed by a context, one gpio_pin_set a step *)

\* where a context continues when apply_charging_color returns
AfterApply(c) ==
    CASE c = "init" -> "int_cfg"
      [] c = "irq" -> "idle"
      [] c = "maint" -> "sleep_150"
      [] c = "listener" -> "idle"

\* bookkeeping of the return from apply_charging_color in context c
ApplyReturn(c) ==
    /\ pc' = [pc EXCEPT ![c] = AfterApply(c)]
    /\ arg' = [arg EXCEPT ![c] = FALSE]
    /\ chans' = [chans EXCEPT ![c] = Off]
    /\ init_log' = IF c = "init" THEN Append(init_log, "apply") ELSE init_log
    /\ listener_ret' = IF c = "listener" THEN 0 ELSE listener_ret
    /\ ev' = IF c = "listener" THEN << >> ELSE ev

\* an apply_charging_color that is not guarded by the LED aliases
ApplyBegin_Unguarded(c) ==
    /\ pc[c] = "apply"
    /\ chans' = [chans EXCEPT ![c] = apply_charging_color(arg[c], soc, cfg)]
    /\ pc' = [pc EXCEPT ![c] = "led_red"]
    /\ UNCHANGED << cfg, dt, ev, raw, soc, is_charging, leds, arg, c1, c2,
                    irq_pending, int_enabled, cb_added, pins_configured,
                    init_ret, init_log, listener_ret >>

\* lines 136-162: entry; without LED aliases the function does nothing
ApplyBegin(c) ==
    /\ pc[c] = "apply"
    /\ IF LedEnabled(dt)
       THEN /\ chans' = [chans EXCEPT ![c] = apply_charging_color(arg[c], soc, cfg)]
            /\ pc' = [pc EXCEPT ![c] = "led_red"]
            /\ UNCHANGED << arg, init_log, listener_ret, ev >>
       ELSE ApplyReturn(c)
    /\ UNCHANGED << cfg, dt, raw, soc, is_charging, leds, c1, c2, irq_pending,
                    int_enabled, cb_added, pins_configured, init_ret >>

\* line 81
led_red(c) ==
    /\ pc[c] = "led_red"
    /\ leds' = [leds EXCEPT !.red = chans[c].red]
    /\ pc' = [pc EXCEPT ![c] = "led_green"]
    /\ UNCHANGED << cfg, dt, ev, raw, soc, is_charging, arg, chans, c1, c2,
                    irq_pending, int_enabled, cb_added, pins_configured,
                    init_ret, init_log, listener_ret >>

\* line 82
led_green(c) ==
    /\ pc[c] = "led_green"
    /\ leds' = [leds EXCEPT !.green = chans[c].green]
    /\ pc' = [pc EXCEPT ![c] = "led_blue"]
    /\ UNCHANGED << cfg, dt, ev, raw, soc, is_charging, arg, chans, c1, c2,
                    irq_pending, int_enabled, cb_added, pins_configured,
                    init_ret, init_log, listener_ret >>

\* line 83, then return from apply_charging_color
led_blue(c) ==
    /\ pc[c] = "led_blue"
    /\ leds' = [leds EXCEPT !.blue = chans[c].blue]
    /\ ApplyReturn(c)
    /\ UNCHANGED << cfg, dt, raw, soc, is_charging, c1, c2, irq_pending,
                    int_enabled, cb_added, pins_configured, init_ret >>

----------------------------------------------------------------------------
(* charge_indicator_init, lines 214-280 *)

InitReturn(r) ==
    /\ pc' = [pc EXCEPT !["init"] = "done"]
    /\ init_ret' = r

\* an init that does not look at CONFIG_CHARGE_INDICATOR
InitEnabledCheck_Ignored ==
    /\ pc["init"] = "start"
    /\ pc' = [pc EXCEPT !["init"] = "chg_ready"]
    /\ UNCHANGED << cfg, dt, ev, raw, soc, is_charging, leds, arg, chans, c1, c2,
                    irq_pending, int_enabled, cb_added, pins_configured,
                    init_ret, init_log, listener_ret >>

\* lines 216-219
InitEnabledCheck ==
    /\ pc["init"] = "start"
    /\ IF ~cfg.enabled
       THEN InitReturn(0)
       ELSE /\ pc' = [pc EXCEPT !["init"] = "chg_ready"]
            /\ UNCHANGED init_ret
    /\ UNCHANGED << cfg, dt, ev, raw, soc, is_charging, leds, arg, chans, c1, c2,
                    irq_pending, int_enabled, cb_added, pins_configured,
                    init_log, listener_ret >>

\* an init that logs the unready input controller but carries on
InitChgReady_CarriesOn ==
    /\ pc["init"] = "chg_ready"
    /\ pc' = [pc EXCEPT !["init"] = "led_ready"]
    /\ UNCHANGED << cfg, dt, ev, raw, soc, is_charging, leds, arg, chans, c1, c2,
                    irq_pending, int_enabled, cb_added, pins_configured,
                    init_ret, init_log, listener_ret >>

\* lines 222-226
InitChgReady ==
    /\ pc["init"] = "chg_ready"
    /\ IF ~dt.chg_ready
       THEN InitReturn(-ENODEV)
       ELSE /\ pc' = [pc EXCEPT !["init"] = "led_ready"]
            /\ UNCHANGED init_ret
    /\ UNCHANGED << cfg, dt, ev, raw, soc, is_charging, leds, arg, chans, c1, c2,
                    irq_pending, int_enabled, cb_added, pins_configured,
                    init_log, listener_ret >>

\* lines 228-237
InitLedReady ==
    /\ pc["init"] = "led_ready"
    /\ IF LedEnabled(dt) /\ ~LedsReady(dt)
       THEN InitReturn(-ENODEV)
       ELSE /\ pc' = [pc EXCEPT !["init"] = "chg_cfg"]
            /\ UNCHANGED init_ret
    /\ UNCHANGED << cfg, dt, ev, raw, soc, is_charging, leds, arg, chans, c1, c2,
                    irq_pending, int_enabled, cb_added, pins_configured,
                    init_log, listener_ret >>

\* lines 240-241
InitChgCfg ==
    /\ pc["init"] = "chg_cfg"
    /\ \E ret \in GpioRets :
         /\ init_log' = Append(init_log, "chg_cfg")
         /\ IF ret # 0
            THEN /\ InitReturn(ret)
                 /\ UNCHANGED pins_configured
            ELSE /\ pins_configured' = pins_configured \cup {"chg"}
                 /\ pc' = [pc EXCEPT !["init"] =
                             IF LedEnabled(dt) THEN "red_cfg" ELSE "read_c1"]
                 /\ UNCHANGED init_ret
    /\ UNCHANGED << cfg, dt, ev, raw, soc, is_charging, leds, arg, chans, c1, c2,
                    irq_pending, int_enabled, cb_added, listener_ret >>

\* the LED configured after l, lines 245-250
NextLedCfg(l) ==
    CASE l = "red" -> "green_cfg"
      [] l = "green" -> "blue_cfg"
      [] l = "blue" -> "read_c1"

\* lines 243-251, one gpio_pin_configure per LED
InitLedCfg(l) ==
    /\ pc["init"] = l \o "_cfg"
    /\ \E ret \in GpioRets :
         /\ init_log' = Append(init_log, l \o "_cfg")
         /\ IF ret # 0
            THEN /\ InitReturn(ret)
                 /\ UNCHANGED pins_configured
            ELSE /\ pins_configured' = pins_configured \cup {l}
                 /\ pc' = [pc EXCEPT !["init"] = NextLedCfg(l)]
                 /\ UNCHANGED init_ret
    /\ UNCHANGED << cfg, dt, ev, raw, soc, is_charging, leds, arg, chans, c1, c2,
                    irq_pending, int_enabled, cb_added, listener_ret >>

\* lines 254-255
InitReadC1 ==
    /\ pc["init"] = "read_c1"
    /\ c1' = read_charging(raw)
    /\ init_log' = Append(init_log, "c1")
    /\ pc' = [pc EXCEPT !["init"] = "read_c2"]
    /\ UNCHANGED << cfg, dt, ev, raw, soc, is_charging, leds, arg, chans, c2,
                    irq_pending, int_enabled, cb_added, pins_configured,
                    init_ret, listener_ret >>

\* an init that accepts the charging state if either sample says so
InitReadC2_Or ==
    /\ pc["init"] = "read_c2"
    /\ c2' = read_charging(raw)
    /\ arg' = [arg EXCEPT !["init"] = (c1 \/ c2')]
    /\ init_log' = Append(init_log, "c2")
    /\ pc' = [pc EXCEPT !["init"] = "store"]
    /\ UNCHANGED << cfg, dt, ev, raw, soc, is_charging, leds, chans, c1,
                    irq_pending, int_enabled, cb_added, pins_configured,
                    init_ret, listener_ret >>

\* lines 256-258: charging_init = c1 && c2
InitReadC2 ==
    /\ pc["init"] = "read_c2"
    /\ c2' = read_charging(raw)
    /\ arg' = [arg EXCEPT !["init"] = (c1 /\ c2')]
    /\ init_log' = Append(init_log, "c2")
    /\ pc' = [pc EXCEPT !["init"] = "store"]
    /\ UNCHANGED << cfg, dt, ev, raw, soc, is_charging, leds, chans, c1,
                    irq_pending, int_enabled, cb_added, pins_configured,
                    init_ret, listener_ret >>

\* line 259; c1 and c2 are dead from here on
InitStore ==
    /\ pc["init"] = "store"
    /\ is_charging' = arg["init"]
    /\ c1' = FALSE
    /\ c2' = FALSE
    /\ init_log' = Append(init_log, "store")
    /\ pc' = [pc EXCEPT !["init"] = "apply"]
    /\ UNCHANGED << cfg, dt, ev, raw, soc, leds, arg, chans, irq_pending,
                    int_enabled, cb_added, pins_configured, init_ret,
                    listener_ret >>

\* lines 263-264
InitIntCfg ==
    /\ pc["init"] = "int_cfg"
    /\ \E ret \in GpioRets :
         /\ init_log' = Append(init_log, "int_cfg")
         /\ IF ret # 0
            THEN /\ InitReturn(ret)
                 /\ UNCHANGED int_enabled
            ELSE /\ int_enabled' = TRUE
                 /\ pc' = [pc EXCEPT !["init"] = "add_cb"]
                 /\ UNCHANGED init_ret
    /\ UNCHANGED << cfg, dt, ev, raw, soc, is_charging, leds, arg, chans, c1, c2,
                    irq_pending, cb_added, pins_configured,
                    listener_ret >>

\* an init that starts the thread before it returns the gpio_add_callback
\* error
InitAddCallback_ThreadOnError ==
    /\ pc["init"] = "add_cb"
    /\ \E ret \in GpioRets :
         /\ init_log' = Append(init_log, "add_cb")
         /\ IF ret # 0
            THEN /\ pc' = [pc EXCEPT !["init"] = "done", !["maint"] = "check"]
                 /\ init_ret' = ret
                 /\ UNCHANGED cb_added
            ELSE /\ cb_added' = TRUE
                 /\ pc' = [pc EXCEPT !["init"] = "thread"]
                 /\ UNCHANGED init_ret
    /\ UNCHANGED << cfg, dt, ev, raw, soc, is_charging, leds, arg, chans, c1, c2,
                    irq_pending, int_enabled, pins_configured,
                    listener_ret >>

\* lines 266-268
InitAddCallback ==
    /\ pc["init"] = "add_cb"
    /\ \E ret \in GpioRets :
         /\ init_log' = Append(init_log, "add_cb")
         /\ IF ret # 0
            THEN /\ InitReturn(ret)
                 /\ UNCHANGED cb_added
            ELSE /\ cb_added' = TRUE
                 /\ pc' = [pc EXCEPT !["init"] = "thread"]
                 /\ UNCHANGED init_ret
    /\ UNCHANGED << cfg, dt, ev, raw, soc, is_charging, leds, arg, chans, c1, c2,
                    irq_pending, int_enabled, pins_configured,
                    listener_ret >>

\* lines 271-279
InitThreadCreate ==
    /\ pc["init"] = "thread"
    /\ init_log' = Append(init_log, "thread")
    /\ pc' = [pc EXCEPT !["init"] = "done", !["maint"] = "check"]
    /\ init_ret' = 0
    /\ UNCHANGED << cfg, dt, ev, raw, soc, is_charging, leds, arg, chans, c1, c2,
                    irq_pending, int_enabled, cb_added, pins_configured,
                    listener_ret >>

----------------------------------------------------------------------------
(* chg_handler, lines 165-171 *)

\* the callback is entered for a latched edge and sleeps (line 167)
HandlerEnter ==
    /\ pc["irq"] = "idle"
    /\ irq_pending > 0
    /\ irq_pending' = irq_pending - 1
    /\ pc' = [pc EXCEPT !["irq"] = "sleep"]
    /\ UNCHANGED << cfg, dt, ev, raw, soc, is_charging, leds, arg, chans, c1, c2,
                    int_enabled, cb_added, pins_configured, init_ret,
                    init_log, listener_ret >>

\* line 168
HandlerRead ==
    /\ pc["irq"] = "sleep"
    /\ arg' = [arg EXCEPT !["irq"] = read_charging(raw)]
    /\ pc' = [pc EXCEPT !["irq"] = "store"]
    /\ UNCHANGED << cfg, dt, ev, raw, soc, is_charging, leds, chans, c1, c2,
                    irq_pending, int_enabled, cb_added, pins_configured,
                    init_ret, init_log, listener_ret >>

\* line 169
HandlerStore ==
    /\ pc["irq"] = "store"
    /\ is_charging' = arg["irq"]
    /\ pc' = [pc EXCEPT !["irq"] = "apply"]
    /\ UNCHANGED << cfg, dt, ev, raw, soc, leds, arg, chans, c1, c2, irq_pending,
                    int_enabled, cb_added, pins_configured, init_ret,
                    init_log, listener_ret >>

----------------------------------------------------------------------------
(* battery_state_changed_listener, lines 174-186 *)

\* lines 176-179: the event manager calls the listener with an event of
\* type e; as_zmk_battery_state_changed gives NULL for any other type.
\* The return value of the previous call is gone once a new call runs.
ListenerEnter(e) ==
    /\ pc["listener"] = "idle"
    /\ IF e # "battery_state_changed"
       THEN /\ listener_ret' = -ENOTSUP
            /\ UNCHANGED pc
       ELSE /\ pc' = [pc EXCEPT !["listener"] = "get"]
            /\ listener_ret' = 0
    /\ UNCHANGED << cfg, dt, raw, is_charging, leds, arg, chans, c1, c2,
                    irq_pending, int_enabled, cb_added, pins_configured,
                    init_ret, init_log >>

\* a listener that re-applies without looking at is_charging
ListenerGet_Unconditional ==
    /\ pc["listener"] = "get"
    /\ arg' = [arg EXCEPT !["listener"] = TRUE]
    /\ pc' = [pc EXCEPT !["listener"] = "apply"]
    /\ UNCHANGED << cfg, dt, ev, raw, soc, is_charging, leds, chans, c1, c2,
                    irq_pending, int_enabled, cb_added, pins_configured,
                    init_ret, init_log, listener_ret >>

\* lines 181-185
ListenerGet ==
    /\ pc["listener"] = "get"
    /\ IF is_charging
       THEN /\ arg' = [arg EXCEPT !["listener"] = TRUE]
            /\ pc' = [pc EXCEPT !["listener"] = "apply"]
            /\ UNCHANGED << listener_ret, ev >>
       ELSE /\ pc' = [pc EXCEPT !["listener"] = "idle"]
            /\ listener_ret' = 0
            /\ ev' = << >>
            /\ UNCHANGED arg
    /\ UNCHANGED << cfg, dt, raw, soc, is_charging, leds, chans, c1, c2,
                    irq_pending, int_enabled, cb_added, pins_configured,
                    init_ret, init_log >>

----------------------------------------------------------------------------
(* charging_maint_task, lines 195-205 *)

\* a maintenance thread that forces the LEDs off while not charging
MaintCheck_IdleForcesOff ==
    /\ pc["maint"] = "check"
    /\ arg' = [arg EXCEPT !["maint"] = is_charging]
    /\ pc' = [pc EXCEPT !["maint"] = "apply"]
    /\ UNCHANGED << cfg, dt, ev, raw, soc, is_charging, leds, chans, c1, c2,
                    irq_pending, int_enabled, cb_added, pins_configured,
                    init_ret, init_log, listener_ret >>

\* a maintenance thread that re-samples the line into is_charging
MaintCheck_Resamples ==
    /\ pc["maint"] = "check"
    /\ is_charging' = read_charging(raw)
    /\ IF is_charging'
       THEN /\ arg' = [arg EXCEPT !["maint"] = TRUE]
            /\ pc' = [pc EXCEPT !["maint"] = "apply"]
       ELSE /\ pc' = [pc EXCEPT !["maint"] = "sleep_1s"]
            /\ UNCHANGED arg
    /\ UNCHANGED << cfg, dt, ev, raw, soc, leds, chans, c1, c2,
                    irq_pending, int_enabled, cb_added, pins_configured,
                    init_ret, init_log, listener_ret >>

\* line 198 and the branch taken
MaintCheck ==
    /\ pc["maint"] = "check"
    /\ IF is_charging
       THEN /\ arg' = [arg EXCEPT !["maint"] = TRUE]
            /\ pc' = [pc EXCEPT !["maint"] = "apply"]
       ELSE /\ pc' = [pc EXCEPT !["maint"] = "sleep_1s"]
            /\ UNCHANGED arg
    /\ UNCHANGED << cfg, dt, ev, raw, soc, is_charging, leds, chans, c1, c2,
                    irq_pending, int_enabled, cb_added, pins_configured,
                    init_ret, init_log, listener_ret >>

\* lines 200 and 202: k_sleep returns, next iteration
MaintWake ==
    /\ pc["maint"] \in {"sleep_150", "sleep_1s"}
    /\ pc' = [pc EXCEPT !["maint"] = "check"]
    /\ UNCHANGED << cfg, dt, ev, raw, soc, is_charging, leds, arg, chans, c1, c2,
                    irq_pending, int_enabled, cb_added, pins_configured,
                    init_ret, init_log, listener_ret >>

----------------------------------------------------------------------------
(* Environment *)

\* the charge-status line changes level; with the interrupt configured on
\* both edges and the callback added, the edge is latched for chg_handler
LineChange ==
    /\ raw' = 1 - raw
    /\ irq_pending' = IF int_enabled /\ cb_added
                      THEN (IF irq_pending < MaxPending
                            THEN irq_pending + 1 ELSE irq_pending)
                      ELSE irq_pending
    /\ UNCHANGED << cfg, dt, ev, soc, is_charging, leds, pc, arg, chans, c1, c2,
                    int_enabled, cb_added, pins_configured, init_ret,
                    init_log, listener_ret >>

\* the battery subsystem's state of charge, as zmk_battery_state_of_charge()
\* returns it, changes
SocChange(s) ==
    /\ s # soc
    /\ soc' = s
    /\ UNCHANGED << cfg, dt, ev, raw, is_charging, leds, pc, arg, chans, c1,
                    c2, irq_pending, int_enabled, cb_added, pins_configured,
                    init_ret, init_log, listener_ret >>

\* the event manager delivers a zmk_battery_state_changed event that
\* carries state of charge p to the listener
BatteryStateChanged(p) ==
    /\ ev' = << p >>
    /\ UNCHANGED soc
    /\ ListenerEnter("battery_state_changed")

\* the event manager delivers an event of another type
OtherEvent ==
    /\ UNCHANGED << soc, ev >>
    /\ ListenerEnter("other")

\* the status-display widget writes one of the shared LED pins
WidgetWrite(l, on) ==
    /\ leds[l] # on
    /\ leds' = [leds EXCEPT ![l] = on]
    /\ UNCHANGED << cfg, dt, ev, raw, soc, is_charging, pc, arg, chans, c1, c2,
                    irq_pending, int_enabled, cb_added, pins_configured,
                    init_ret, init_log, listener_ret >>

----------------------------------------------------------------------------

ModuleStep ==
    \/ InitEnabledCheck
    \/ InitChgReady
    \/ InitLedReady
    \/ InitChgCfg
    \/ \E l \in Leds : InitLedCfg(l)
    \/ InitReadC1
    \/ InitReadC2
    \/ InitStore
    \/ InitIntCfg
    \/ InitAddCallback
    \/ InitThreadCreate
    \/ HandlerEnter
    \/ HandlerRead
    \/ HandlerStore
    \/ ListenerGet
    \/ MaintCheck
    \/ MaintWake
    \/ \E c \in Ctx : ApplyBegin(c)
    \/ \E c \in Ctx : led_red(c)
    \/ \E c \in Ctx : led_green(c)
    \/ \E c \in Ctx : led_blue(c)

EnvStep ==
    \/ LineChange
    \/ \E s \in Pcts : SocChange(s)
    \/ \E p \in EvPcts : BatteryStateChanged(p)
    \/ OtherEvent
    \/ \E l \in Leds, on \in BOOLEAN : WidgetWrite(l, on)

Next == ModuleStep \/ EnvStep

Spec == Init /\ [][Next]_vars

----------------------------------------------------------------------------
(* Vocabulary of the properties *)

\* a context of this module executes gpio_pin_set on an LED pin
ModuleLedWrite == \E c \in Ctx : led_red(c) \/ led_green(c) \/ led_blue(c)

\* the listener executes gpio_pin_set on an LED pin
ListenerLedWrite ==
    led_red("listener") \/ led_green("listener") \/ led_blue("listener")

\* context c is inside apply_charging_color
InApply(c) == pc[c] \in {"apply", "led_red", "led_green", "led_blue"}

\* no run of chg_handler is in progress or latched
HandlerQuiet == pc["irq"] = "idle" /\ irq_pending = 0

\* some LED alias is missing: LED control is compiled out (capability Absent)
AliasMissing == \E l \in Leds : dt.led[l] = "none"

\* charge_indicator_init has returned 0 with the module enabled
BootSucceeded == pc["init"] = "done" /\ init_ret = 0 /\ cfg.enabled

\* what apply_charging_color(true) selects in the current state
ChargingPolicy == apply_charging_color(TRUE, soc, cfg)

----------------------------------------------------------------------------
(* C1 *)

\* C1 (as claimed): once is_charging is false, bootstrap is over and every
\* run of chg_handler has finished its all-off writes, no context of this
\* module writes an LED pin again while is_charging stays false.
C1_NoWriteAfterHandOff ==
    [][(~is_charging /\ ~is_charging' /\ pc["init"] = "done" /\ HandlerQuiet)
          => ~ModuleLedWrite]_vars

----------------------------------------------------------------------------
(* C2 *)

\* where charging_maint_task is at most one suppression interval, the
\* k_sleep(K_MSEC(150)) of line 200, away from its next
\* apply_charging_color(true); in "sleep_1s" it is in the
\* k_sleep(K_SECONDS(1)) of line 202
WithinSuppressionInterval ==
    pc["maint"] \in {"check", "apply", "led_red", "led_green", "led_blue",
                     "sleep_150"}

\* C2 (as claimed): while is_charging is true and the thread runs, a widget
\* write that makes the LED pins differ from the charging policy is
\* overwritten by the thread's next iteration, at most one suppression
\* interval later: whenever the widget makes such a write, the thread is
\* applying or at most its 150 ms sleep away from applying.
C2_OverwrittenWithinInterval ==
    [][ ( /\ \E l \in Leds, on \in BOOLEAN : WidgetWrite(l, on)
          /\ BootSucceeded
          /\ LedEnabled(dt)
          /\ is_charging
          /\ HandlerQuiet
          /\ \A c \in Ctx : ~InApply(c)
          /\ leds' # ChargingPolicy )
        => WithinSuppressionInterval ]_vars

----------------------------------------------------------------------------
(* C3 *)

\* C3 (as claimed): the listener writes an LED pin only in an invocation
\* that read is_charging as true and only if battery-level-based colouring
\* is enabled.
C3_WritesOnlyWithBatteryColoring ==
    [][ListenerLedWrite
          => (arg["listener"] /\ cfg.battery_level_based_color)]_vars

\* C3 (amended): the listener calls apply_charging_color(true) exactly when
\* its read of is_charging returns true, whether or not battery-level-based
\* colouring is enabled; when the read returns false it returns 0 without
\* an LED write; no step of the listener changes is_charging.
C3_WritesIffCharging ==
    [][ /\ (pc["listener"] = "get" /\ pc'["listener"] # "get" /\ ~is_charging)
             => (pc'["listener"] = "idle" /\ leds' = leds
                   /\ listener_ret' = 0)
        /\ (pc["listener"] = "get" /\ pc'["listener"] # "get" /\ is_charging)
             => (pc'["listener"] = "apply" /\ arg'["listener"])
        /\ ListenerLedWrite => arg["listener"]
        /\ (pc'["listener"] # pc["listener"] \/ listener_ret' # listener_ret)
             => is_charging' = is_charging ]_vars

\* C3 witness: with battery-level-based colouring disabled the listener has
\* written the red pin and goes on to green
C3_Witness ==
    /\ ~cfg.battery_level_based_color
    /\ pc["listener"] = "led_green"
    /\ arg["listener"]

----------------------------------------------------------------------------
(* C4 *)

\* C4 (as claimed): delivering an event of another type to the listener
\* leaves is_charging and the LED pins unchanged and the listener does not
\* return an error (a negative value).
C4_OtherEventIgnored ==
    [][OtherEvent
          => (listener_ret' >= 0 /\ is_charging' = is_charging
                /\ leds' = leds)]_vars

----------------------------------------------------------------------------
(* C5 *)

\* every combination of alias and controller status of the three LEDs, on
\* the fixed-colour policy
InitBoot ==
    /\ cfg \in {c \in Configs :
                  ~c.chg_policy /\ ~c.battery_level_based_color}
    /\ dt \in AllDeviceTrees
    /\ raw \in {0, 1}
    /\ soc \in Pcts
    /\ ev = << >>
    /\ is_charging = FALSE
    /\ leds = Off
    /\ pc = [c \in Ctx |->
               CASE c = "init" -> "start"
                 [] c = "maint" -> "none"
                 [] OTHER -> "idle"]
    /\ arg = [c \in Ctx |-> FALSE]
    /\ chans = [c \in Ctx |-> Off]
    /\ c1 = FALSE
    /\ c2 = FALSE
    /\ irq_pending = 0
    /\ int_enabled = FALSE
    /\ cb_added = FALSE
    /\ pins_configured = {}
    /\ init_ret = 0
    /\ init_log = << >>
    /\ listener_ret = 0

SpecBoot == InitBoot /\ [][Next]_vars

\* the LED outputs that are usable: alias okay and controller ready
AvailableLeds == {l \in Leds : dt.led[l] = "okay"}

\* C5 (as claimed): with no LED output available bootstrap does not abort
\* at output resolution (-ENODEV with the input ready); with one or two
\* available it aborts with an error and never installs the interrupt or
\* starts the thread.
C5_PartialWiringFatal ==
    /\ (cfg.enabled /\ dt.chg_ready /\ AvailableLeds = {}
          /\ pc["init"] = "done")
         => init_ret # -ENODEV
    /\ (cfg.enabled /\ dt.chg_ready /\ Cardinality(AvailableLeds) \in {1, 2})
         => /\ ~int_enabled
            /\ ~cb_added
            /\ pc["maint"] = "none"
            /\ pc["init"] = "done" => init_ret < 0

----------------------------------------------------------------------------
(* C6 *)

\* C6: with an LED alias missing, only the widget changes an LED pin and
\* no context reaches a gpio_pin_set, while bootstrap stores its initial
\* sample in is_charging and every run of chg_handler stores (raw == 0) as
\* read after its sleep.
C6_AbsentNoWrites ==
    [][AliasMissing =>
         /\ leds' # leds => \E l \in Leds, on \in BOOLEAN : WidgetWrite(l, on)
         /\ \A c \in Ctx : pc'[c] \notin {"led_red", "led_green", "led_blue"}
         /\ (pc["init"] = "store" /\ pc'["init"] # "store")
              => is_charging' = arg["init"]
         /\ (pc["irq"] = "sleep" /\ pc'["irq"] # "sleep")
              => arg'["irq"] = (raw = 0)
         /\ (pc["irq"] = "store" /\ pc'["irq"] # "store")
              => is_charging' = arg["irq"] ]_vars

\* C6 witness: without LED aliases chg_handler has stored true and is at
\* its (empty) apply_charging_color, the pins still as the widget left them
C6_Witness ==
    /\ AliasMissing
    /\ pc["irq"] = "apply"
    /\ arg["irq"]
    /\ is_charging
    /\ raw = 0

----------------------------------------------------------------------------
(* C7 *)

\* C7: with the feature disabled init returns 0 and nothing else happens:
\* is_charging stays false, no pin is configured, no context is inside
\* apply_charging_color, no interrupt or callback is installed, the thread
\* is not started.
C7_DisabledInert ==
    ~cfg.enabled =>
        /\ pc["init"] \in {"start", "done"}
        /\ pc["init"] = "done" => init_ret = 0
        /\ init_log = << >>
        /\ is_charging = FALSE
        /\ pins_configured = {}
        /\ ~int_enabled
        /\ ~cb_added
        /\ irq_pending = 0
        /\ pc["irq"] = "idle"
        /\ pc["maint"] = "none"
        /\ \A c \in Ctx : ~InApply(c)

\* C7 witness: disabled, init has returned, the charger is connected and a
\* battery event is being handled
C7_Witness ==
    /\ ~cfg.enabled
    /\ pc["init"] = "done"
    /\ raw = 0
    /\ pc["listener"] = "get"

----------------------------------------------------------------------------
(* C8 *)

\* C8: with the input controller not ready init returns -ENODEV and has
\* changed nothing: is_charging stays false, no pin is configured or
\* written, no interrupt or callback is installed, the thread is not
\* started.
C8_InputNotReadyAborts ==
    (cfg.enabled /\ ~dt.chg_ready) =>
        /\ pc["init"] \in {"start", "chg_ready", "done"}
        /\ pc["init"] = "done" => init_ret = -ENODEV
        /\ init_log = << >>
        /\ is_charging = FALSE
        /\ pins_configured = {}
        /\ ~int_enabled
        /\ ~cb_added
        /\ irq_pending = 0
        /\ pc["irq"] = "idle"
        /\ pc["maint"] = "none"
        /\ \A c \in Ctx : ~InApply(c)

\* C8 witness: init has returned -ENODEV for the unready input controller
\* while the charger is connected
C8_Witness ==
    /\ cfg.enabled
    /\ ~dt.chg_ready
    /\ pc["init"] = "done"
    /\ init_ret = -ENODEV
    /\ raw = 0

----------------------------------------------------------------------------
(* C9 *)

\* the steps of a complete bootstrap, in source order
InitOrder ==
    IF \A l \in Leds : dt.led[l] # "none"
    THEN << "chg_cfg", "red_cfg", "green_cfg", "blue_cfg", "c1", "c2",
            "store", "apply", "int_cfg", "add_cb", "thread" >>
    ELSE << "chg_cfg", "c1", "c2", "store", "apply", "int_cfg", "add_cb",
            "thread" >>

IsPrefix(s, t) == Len(s) <= Len(t) /\ s = SubSeq(t, 1, Len(s))

Executed(step) == \E i \in 1..Len(init_log) : init_log[i] = step

\* C9: init executes its steps in source order, each at most once: the
\* callback is added only after the initial state was stored and applied,
\* the thread is started only after the callback was added, an error
\* return leaves the thread unstarted, and once init has returned it
\* executes nothing more.
C9_LinearBootstrap ==
    [][ /\ IsPrefix(init_log, InitOrder)
        /\ cb_added => (Executed("store") /\ Executed("apply")
                          /\ Executed("add_cb") /\ int_enabled)
        /\ int_enabled => Executed("apply")
        /\ pc["maint"] # "none"
             => (cb_added /\ Executed("thread") /\ pc["init"] = "done"
                   /\ init_ret = 0)
        /\ (pc["init"] = "done" /\ init_ret # 0) => pc["maint"] = "none"
        /\ pc["init"] = "done"
             => /\ pc'["init"] = "done"
                /\ UNCHANGED << init_log, init_ret, int_enabled, cb_added,
                                pins_configured >> ]_vars

\* C9 witness: gpio_add_callback failed after the initial state was applied
\* and the interrupt configured; init returned the error, no thread
C9_Witness ==
    /\ pc["init"] = "done"
    /\ init_ret # 0
    /\ Executed("add_cb")
    /\ int_enabled
    /\ ~cb_added
    /\ is_charging
    /\ pc["maint"] = "none"

----------------------------------------------------------------------------
(* C10 *)

\* C10: is_charging changes only in the store of init (line 259) or of
\* chg_handler (line 169); a step of the maintenance thread or of the
\* listener never changes it.
C10_SingleWriter ==
    [][ /\ is_charging' # is_charging
             => \/ (pc["init"] = "store" /\ pc'["init"] = "apply")
                \/ (pc["irq"] = "store" /\ pc'["irq"] = "apply")
        /\ (pc'["maint"] # pc["maint"] \/ pc'["listener"] # pc["listener"])
             => is_charging' = is_charging ]_vars

\* C10 witness: chg_handler has just stored not-charging while the thread
\* and the listener are both inside their re-apply
C10_Witness ==
    /\ ~is_charging
    /\ pc["irq"] = "apply"
    /\ pc["maint"] = "led_green"
    /\ pc["listener"] = "led_blue"

----------------------------------------------------------------------------
(* C11 *)

\* C11: each initial sample is (raw level == 0) at the time it is taken,
\* and the value init stores in is_charging is c1 AND c2: true only if both
\* samples read charging.
C11_InitialStateIsAnd ==
    [][ /\ (pc["init"] = "read_c1" /\ pc'["init"] # "read_c1")
             => c1' = (raw = 0)
        /\ (pc["init"] = "read_c2" /\ pc'["init"] # "read_c2")
             => c2' = (raw = 0)
        /\ (pc["init"] = "store" /\ pc'["init"] # "store")
             => /\ is_charging' = (c1 /\ c2)
                /\ (c1 /\ c2) => is_charging'
                /\ (c1 /\ ~c2) => ~is_charging'
                /\ (~c1 /\ c2) => ~is_charging'
                /\ (~c1 /\ ~c2) => ~is_charging' ]_vars

\* C11 witness: the samples disagreed (first charging, second not) and init
\* is about to store the resulting not-charging state
C11_Witness ==
    /\ pc["init"] = "store"
    /\ c1
    /\ ~c2
    /\ ~arg["init"]

----------------------------------------------------------------------------
(* The colour functions on all their inputs *)

UINT8_MAX == 255

\* every value of the uint8_t battery_pct, and -1 as the battery subsystem
\* would report it before the conversion to uint8_t
PctInputs == (-1)..UINT8_MAX

\* colour codes: the eight colours and values outside 0..7
ColorInputs == (-2)..9

\* battery-level colouring on several threshold sets, and the fixed colour
\* on every colour code
ColorConfigs ==
    { c \in [ enabled : {TRUE},
              chg_policy : {FALSE},
              battery_level_based_color : BOOLEAN,
              chg_color : ColorInputs,
              level_critical : {10, 25}, level_low : {30},
              level_high : {80, 100},
              color_critical : {1}, color_low : {3}, color_medium : {2},
              color_high : {7}, color_missing : {4} ] :
        /\ c.battery_level_based_color => c.chg_color = 5
        /\ ~c.battery_level_based_color
             => (c.level_critical = 10 /\ c.level_high = 80) }

\* bootstrap has succeeded with the LEDs wired while charging, and the
\* listener has read is_charging as true for a battery event
InitColor ==
    /\ cfg \in ColorConfigs
    /\ dt = [chg_ready |-> TRUE, led |-> [l \in Leds |-> "okay"]]
    /\ raw = 0
    /\ soc \in PctInputs
    /\ ~cfg.battery_level_based_color => soc \in Pcts
    /\ ev \in {<< p >> : p \in EvPcts}
    /\ is_charging = TRUE
    /\ leds = Off
    /\ pc = [c \in Ctx |->
               CASE c = "init" -> "done"
                 [] c = "irq" -> "idle"
                 [] c = "maint" -> "check"
                 [] c = "listener" -> "apply"]
    /\ arg = [c \in Ctx |-> c = "listener"]
    /\ chans = [c \in Ctx |-> Off]
    /\ c1 = FALSE
    /\ c2 = FALSE
    /\ irq_pending = 0
    /\ int_enabled = TRUE
    /\ cb_added = TRUE
    /\ pins_configured = {"chg", "red", "green", "blue"}
    /\ init_ret = 0
    /\ init_log = << "chg_cfg", "red_cfg", "green_cfg", "blue_cfg", "c1",
                     "c2", "store", "apply", "int_cfg", "add_cb", "thread" >>
    /\ listener_ret = 0

\* the listener's apply_charging_color(true), lines 182 and 136-162
NextColor ==
    \/ ApplyBegin("listener")
    \/ led_red("listener")
    \/ led_green("listener")
    \/ led_blue("listener")

SpecColor == InitColor /\ [][NextColor]_vars

\* the channel values context c writes once it has chosen them
Writing(c) == pc[c] \in {"led_red", "led_green", "led_blue"}

----------------------------------------------------------------------------
(* C12 *)

\* the colour the claim gives for percentage p
C12_Expected(p, c) ==
    IF p < 0 \/ p > 100 THEN c.color_missing
    ELSE IF p < c.level_critical THEN c.color_critical
    ELSE IF p < c.level_low THEN c.color_low
    ELSE IF p < c.level_high THEN c.color_medium
    ELSE c.color_high

\* C12: with battery-level colouring the colour selected for the battery
\* percentage is the missing colour outside [0,100] (also for -1), else
\* critical / low / medium / high by the first threshold the percentage is
\* strictly below; and this is the colour apply_charging_color writes.
C12_ThresholdSelection ==
    cfg.battery_level_based_color =>
        /\ get_battery_level_color(soc, cfg) = C12_Expected(soc, cfg)
        /\ Writing("listener")
             => chans["listener"] = apply_color_code(C12_Expected(soc, cfg))

\* C12 witness: the percentage is -1 and the listener is writing the
\* missing colour
C12_Witness ==
    /\ cfg.battery_level_based_color
    /\ soc = -1
    /\ pc["listener"] = "led_green"
    /\ chans["listener"] = apply_color_code(cfg.color_missing)
    /\ leds.red = chans["listener"].red

----------------------------------------------------------------------------
(* C13 *)

\* bit k of a code in 0..7
Bit(c, k) == (c \div (2 ^ k)) % 2 = 1

\* the channels the claim gives for colour code c
C13_Expected(c) ==
    IF c \in 0..7
    THEN [red |-> Bit(c, 0), green |-> Bit(c, 1), blue |-> Bit(c, 2)]
    ELSE [red |-> TRUE, green |-> FALSE, blue |-> FALSE]

\* C13: a colour code in 0..7 is written as red = bit 0, green = bit 1,
\* blue = bit 2; a code outside 0..7 is written as code 1, red only.
C13_ColorCodeUnpacking ==
    /\ \A c \in ColorInputs : apply_color_code(c) = C13_Expected(c)
    /\ C13_Expected(5) = [red |-> TRUE, green |-> FALSE, blue |-> TRUE]
    /\ (~cfg.battery_level_based_color /\ Writing("listener"))
         => chans["listener"] = C13_Expected(cfg.chg_color)
    /\ (~cfg.battery_level_based_color /\ pc["listener"] = "idle")
         => leds = C13_Expected(cfg.chg_color)

\* C13 witness: a code outside 0..7 has been written out as red only
C13_Witness ==
    /\ ~cfg.battery_level_based_color
    /\ cfg.chg_color = 9
    /\ pc["listener"] = "idle"
    /\ leds = [red |-> TRUE, green |-> FALSE, blue |-> FALSE]

----------------------------------------------------------------------------
(* C14 *)

\* C14: with CONFIG_CHG_POLICY set, every apply_charging_color, from
\* whichever context and whatever the fixed colour, battery-level colouring
\* and battery percentage, selects all three channels off, and every LED pin
\* write of this module writes off.
C14_PolicyForcesOff ==
    /\ [](cfg.chg_policy => \A c \in Ctx : chans[c] = Off)
    /\ [][cfg.chg_policy =>
            \A c \in Ctx : /\ led_red(c) => ~leds'.red
                           /\ led_green(c) => ~leds'.green
                           /\ led_blue(c) => ~leds'.blue]_vars

\* C14 witness: policy set with battery-level colouring, charging; the
\* maintenance thread has written red off and is about to overwrite a green
\* the widget turned on
C14_Witness ==
    /\ cfg.chg_policy
    /\ cfg.battery_level_based_color
    /\ is_charging
    /\ arg["maint"]
    /\ pc["maint"] = "led_green"
    /\ ~leds.red
    /\ leds.green

----------------------------------------------------------------------------
(* C15 *)

\* the channels the claim gives for a run of chg_handler that read charging
C15_Expected(charging) ==
    IF ~charging THEN Off
    ELSE IF cfg.chg_policy THEN Off
    ELSE IF cfg.battery_level_based_color
         THEN apply_color_code(get_battery_level_color(soc, cfg))
         ELSE IF cfg.chg_color = 5
              THEN [red |-> TRUE, green |-> FALSE, blue |-> TRUE]
              ELSE apply_color_code(cfg.chg_color)

\* C15: a run of chg_handler reads the CHG line after its sleep, stores
\* (level = 0) in is_charging, then selects all off when that value is false
\* and the charging policy's colour when it is true, writes it to the three
\* pins, and only then returns.
C15_HandlerSetsAndApplies ==
    [][ /\ HandlerRead => (arg'["irq"] = (raw = 0))
        /\ HandlerStore => (is_charging' = arg["irq"] /\ pc'["irq"] = "apply")
        /\ (ApplyBegin("irq") /\ LedEnabled(dt))
             => (chans'["irq"] = C15_Expected(arg["irq"])
                 /\ pc'["irq"] = "led_red")
        /\ (Writing("irq") /\ Writing("irq")')
             => (chans'["irq"] = chans["irq"] /\ arg'["irq"] = arg["irq"])
        /\ led_red("irq") => leds'.red = chans["irq"].red
        /\ led_green("irq") => leds'.green = chans["irq"].green
        /\ led_blue("irq") => leds'.blue = chans["irq"].blue
        /\ (pc["irq"] # "idle" /\ pc'["irq"] = "idle")
             => (led_blue("irq") \/ (ApplyBegin("irq") /\ ~LedEnabled(dt))) ]_vars

\* C15 witness: the handler re-read the line low, stored true and has
\* written red on and green off of the fixed colour 5
C15_Witness ==
    /\ pc["irq"] = "led_blue"
    /\ arg["irq"]
    /\ is_charging
    /\ ~cfg.chg_policy
    /\ ~cfg.battery_level_based_color
    /\ cfg.chg_color = 5
    /\ chans["irq"] = [red |-> TRUE, green |-> FALSE, blue |-> TRUE]

----------------------------------------------------------------------------
(* C16 *)

\* the channels the claim gives for a battery event reporting p
C16_Expected(p) ==
    LET color == IF p < 0 \/ p > 100 THEN cfg.color_missing
                 ELSE IF p < cfg.level_critical THEN cfg.color_critical
                 ELSE IF p < cfg.level_low THEN cfg.color_low
                 ELSE IF p < cfg.level_high THEN cfg.color_medium
                 ELSE cfg.color_high
    IN  IF p = 20 /\ cfg.level_critical = 10 /\ cfg.level_low = 30
           /\ cfg.color_low = 3
        THEN [red |-> TRUE, green |-> TRUE, blue |-> FALSE]
        ELSE [red |-> color % 2 = 1,
              green |-> (color \div 2) % 2 = 1,
              blue |-> (color \div 4) % 2 = 1]

----------------------------------------------------------------------------
(* C17 *)

\* C17: an iteration of charging_maint_task that reads is_charging false goes
\* straight to its one-second sleep and from there to the next read; neither
\* step writes an LED pin or is_charging.
C17_IdleIterationWritesNothing ==
    [][ /\ (pc["maint"] = "check" /\ pc'["maint"] # "check" /\ ~is_charging)
             => /\ pc'["maint"] = "sleep_1s"
                /\ leds' = leds
                /\ is_charging' = is_charging
                /\ chans'["maint"] = chans["maint"]
        /\ (pc["maint"] = "sleep_1s" /\ pc'["maint"] # "sleep_1s")
             => /\ pc'["maint"] = "check"
                /\ leds' = leds
                /\ is_charging' = is_charging ]_vars

\* C17 witness: the thread read false and sleeps, leaving on an LED that
\* the widget lit
C17_Witness ==
    /\ pc["maint"] = "sleep_1s"
    /\ ~is_charging
    /\ raw = 1
    /\ leds.green
    /\ \A c \in Ctx : ~InApply(c)

----------------------------------------------------------------------------
(* The module alone on the LED pins: without the widget's writes, leds is
   the last value this module has written to each pin *)

NextModule ==
    \/ ModuleStep
    \/ LineChange
    \/ \E s \in Pcts : SocChange(s)
    \/ \E p \in EvPcts : BatteryStateChanged(p)
    \/ OtherEvent

SpecModule == Init /\ [][NextModule]_vars

\* no context is between its read of is_charging (or, for chg_handler, its
\* entry) and the end of its LED writes
NoneMidOperation ==
    /\ \A c \in Ctx : ~InApply(c)
    /\ pc["listener"] = "idle"
    /\ pc["maint"] \in {"sleep_150", "sleep_1s"}
    /\ HandlerQuiet

----------------------------------------------------------------------------
(* C18 *)

\* C18 (as claimed): whenever is_charging is false and no context of the
\* module is in the middle of an operation, the last values the module wrote
\* to the three LED pins are off, off, off.
C18_OffWhenNotCharging ==
    (BootSucceeded /\ ~is_charging /\ NoneMidOperation) => leds = Off

----------------------------------------------------------------------------
(* C19 *)

\* C19 (as claimed): whenever every context has finished its current apply,
\* the three LED pins as written by the module are all off or exactly the
\* channels of the colour the charging policy selects for some battery
\* percentage, never channels of two different applies.
C19_NoMixedColour ==
    (BootSucceeded /\ NoneMidOperation)
        => \/ leds = Off
           \/ \E p \in Pcts : leds = apply_charging_color(TRUE, p, cfg)

----------------------------------------------------------------------------
(* C20 *)

\* C20 (as claimed): after a successful bootstrap, once no run of
\* chg_handler is in progress or pending, is_charging equals
\* (CHG line level = 0), whenever the last change of the line happened.
C20_FlagFollowsLine ==
    (BootSucceeded /\ HandlerQuiet) => is_charging = (raw = 0)

====
